---- MODULE Spec2Model ----
(***************************************************************************)
(* Fire & Smoke interactive shader (src/src/Project.cpp).                  *)
(*                                                                         *)
(* Two machines are modelled:                                              *)
(*   - the render loop of main(): the animation state (paused, baseTime,   *)
(*     speed, colorMode, the key*Pressed flags) driven by polled keys and  *)
(*     the wall clock, and the values uploaded to the shader each frame;   *)
(*   - the noise field generator: PerlinNoise3D's permutation table and    *)
(*     create3DNoiseTexture's lattice loop.                                *)
(*                                                                         *)
(* C++ float is IEEE-754 binary32.  A float is the record                  *)
(* [s |-> sign, m |-> mantissa, e |-> exponent] of value (-1)^s * m * 2^e  *)
(* with 2^23 <= m < 2^24, or m = 0 for zero.  Every operation rounds to    *)
(* nearest, ties to even, as the hardware does.                            *)
(***************************************************************************)
EXTENDS Integers, Sequences, FiniteSets

----------------------------------------------------------------------------
(* binary32 arithmetic *)

MantBits == 24

Two23 == 2^23

Two24 == 2^24

FZero == [s |-> 0, m |-> 0, e |-> 0]

\* number of significant bits of n, 0 <= n < 2^31
BitLen(n) == Cardinality({i \in 0..30 : 2^i <= n})

\* n / 2^k rounded to nearest, ties to even (n >= 0, k >= 1)
RoundShift(n, k) ==
    LET q    == n \div (2^k)
        r    == n % (2^k)
        half == 2^(k - 1)
    IN  IF r > half \/ (r = half /\ q % 2 = 1) THEN q + 1 ELSE q

\* the float nearest to (-1)^s * n * 2^e, for an integer 0 <= n < 2^31
FNorm(s, n, e) ==
    IF n = 0 THEN FZero
    ELSE LET k == BitLen(n) - MantBits
         IN  IF k <= 0
             THEN [s |-> s, m |-> n * 2^(0 - k), e |-> e + k]
             ELSE LET q == RoundShift(n, k)
                  IN  IF q = Two24
                      THEN [s |-> s, m |-> Two23, e |-> e + k + 1]
                      ELSE [s |-> s, m |-> q, e |-> e + k]

\* (float)n for an int n
FInt(n) == IF n < 0 THEN FNorm(1, 0 - n, 0) ELSE FNorm(0, n, 0)

FNeg(a) == IF a.m = 0 THEN a ELSE [a EXCEPT !.s = 1 - a.s]

\* |a| < |b|
FMagLess(a, b) ==
    IF b.m = 0 THEN FALSE
    ELSE IF a.m = 0 THEN TRUE
    ELSE a.e < b.e \/ (a.e = b.e /\ a.m < b.m)

\* a < b
FLess(a, b) ==
    IF a.s # b.s THEN a.s = 1 /\ (a.m # 0 \/ b.m # 0)
    ELSE IF a.s = 0 THEN FMagLess(a, b) ELSE FMagLess(b, a)

FLeq(a, b) == ~FLess(b, a)

\* a + b for |a| >= |b|, both nonzero: b is aligned to a's exponent with
\* three guard bits, the lowest of them sticky
FAddOrdered(a, b) ==
    LET d  == a.e - b.e
        A  == a.m * 8
        Bf == b.m * 8
        B  == IF d > MantBits + 3 THEN 1
              ELSE IF d = 0 THEN Bf
              ELSE LET sh == Bf \div (2^d)
                   IN  IF Bf % (2^d) # 0 /\ sh % 2 = 0 THEN sh + 1 ELSE sh
        S  == IF a.s = b.s THEN A + B ELSE A - B
    IN  FNorm(a.s, S, a.e - 3)

\* a + b
FAdd(a, b) ==
    IF a.m = 0 THEN b
    ELSE IF b.m = 0 THEN a
    ELSE IF FMagLess(a, b) THEN FAddOrdered(b, a) ELSE FAddOrdered(a, b)

\* a - b
FSub(a, b) == FAdd(a, FNeg(b))

\* a * b: the 48-bit product of the mantissas from 12-bit halves, rounded
FMul(a, b) ==
    IF a.m = 0 \/ b.m = 0 THEN FZero
    ELSE LET H    == 4096
             ah   == a.m \div H
             al   == a.m % H
             bh   == b.m \div H
             bl   == b.m % H
             low  == al * bl
             mid  == ah * bl + al * bh + (low \div H)
             high == ah * bh + (mid \div H)
             rest == (mid % H) * H + (low % H)
             s    == IF a.s = b.s THEN 0 ELSE 1
             e    == a.e + b.e + MantBits
         IN  IF high >= Two23
             THEN LET up == rest > Two23 \/ (rest = Two23 /\ high % 2 = 1)
                      q  == IF up THEN high + 1 ELSE high
                  IN  IF q = Two24 THEN [s |-> s, m |-> Two23, e |-> e + 1]
                      ELSE [s |-> s, m |-> q, e |-> e]
             ELSE LET h2 == high * 2 + (rest \div Two23)
                      r2 == rest % Two23
                      hf == Two23 \div 2
                      up == r2 > hf \/ (r2 = hf /\ h2 % 2 = 1)
                      q  == IF up THEN h2 + 1 ELSE h2
                  IN  IF q = Two24 THEN [s |-> s, m |-> Two23, e |-> e]
                      ELSE [s |-> s, m |-> q, e |-> e - 1]

\* std::min(a, b): b < a ? b : a
FMin(a, b) == IF FLess(b, a) THEN b ELSE a

\* std::max(a, b): a < b ? b : a
FMax(a, b) == IF FLess(a, b) THEN b ELSE a

\* floor(a) as an integer (|a| < 2^31)
FFloor(a) ==
    IF a.m = 0 THEN 0
    ELSE IF a.e >= 0 THEN (IF a.s = 0 THEN a.m * 2^a.e ELSE 0 - a.m * 2^a.e)
    ELSE IF 0 - a.e >= MantBits THEN (IF a.s = 0 THEN 0 ELSE 0 - 1)
    ELSE LET q == a.m \div (2^(0 - a.e))
             r == a.m % (2^(0 - a.e))
         IN  IF a.s = 0 THEN q
             ELSE IF r = 0 THEN 0 - q ELSE 0 - q - 1

\* the literals of the source, as binary32
F0_1 == [s |-> 0, m |-> 13421773, e |-> 0 - 27]

F1_0 == [s |-> 0, m |-> Two23, e |-> 0 - 23]

F3_0 == [s |-> 0, m |-> 12582912, e |-> 0 - 22]

F0_5 == [s |-> 0, m |-> Two23, e |-> 0 - 24]

F0_04 == [s |-> 0, m |-> 10737418, e |-> 0 - 28]

\* 149.515625f
F149_5 == [s |-> 0, m |-> 9798656, e |-> 0 - 16]

----------------------------------------------------------------------------
(* the render loop of main() *)

\* bounds of the model
MaxClock == 2

MaxKeysDown == 2

MaxRun == 52

MaxSpeedFrames == 2

\* the control keys main() polls; PLUS is GLFW_KEY_EQUAL or GLFW_KEY_KP_ADD,
\* MINUS is GLFW_KEY_MINUS or GLFW_KEY_KP_SUBTRACT
Keys == {"SPACE", "PLUS", "MINUS", "C", "R"}

SpeedKeys == {"PLUS", "MINUS"}

\* the sets of keys a poll may find down
KeySets == {ks \in SUBSET Keys : Cardinality(ks) <= MaxKeysDown}

VARIABLES
    paused,           \* bool paused
    baseTime,         \* float baseTime
    speed,            \* float speed
    colorMode,        \* int colorMode
    keySpacePressed,  \* bool keySpacePressed
    keyCPressed,      \* bool keyCPressed
    keyRPressed,      \* bool keyRPressed
    clock,            \* glfwGetTime() at the last read, in whole seconds
    time,             \* float time of the last frame (line 377)
    uTime,            \* the "time" uniform of the last frame (line 378)
    uColorMode,       \* the "colorMode" uniform of the last frame (line 379)
    keys,             \* the keys the last poll found down
    fired,            \* the transitions the last frame's input handling took
    pausedAt,         \* the clock read by the last Playing->Paused toggle
    upRun,            \* speed-up steps taken in a row since speed was 1.0 (-1: none)
    speedFrames,      \* frames so far that found a speed key down (up to MaxSpeedFrames)
    modeHist,         \* colorMode before each of the last three cycles since a reset
    idleAdvance       \* the last frame found no key down and read a later clock

loopVars == <<paused, baseTime, speed, colorMode, keySpacePressed, keyCPressed,
              keyRPressed, clock, time, uTime, uColorMode, keys, fired,
              pausedAt, upRun, speedFrames, modeHist, idleAdvance>>

\* the interactive state the handlers work on
State == [paused |-> paused, baseTime |-> baseTime, speed |-> speed,
          colorMode |-> colorMode]

\* paused = !paused; if (paused) baseTime = (float)glfwGetTime();
TogglePause(st, now) ==
    LET p == ~st.paused
    IN  [st EXCEPT !.paused = p,
                   !.baseTime = IF p THEN FInt(now) ELSE st.baseTime]

\* HandleSpace refreshing the frozen reference on every paused frame
HandleSpaceRefresh(st, down, now) ==
    IF "SPACE" \in down /\ ~keySpacePressed THEN TogglePause(st, now)
    ELSE IF st.paused THEN [st EXCEPT !.baseTime = FInt(now)] ELSE st

\* the SPACE block: the toggle runs when the key is down and was not
HandleSpace(st, down, now) ==
    IF "SPACE" \in down /\ ~keySpacePressed THEN TogglePause(st, now) ELSE st

\* SpeedUp without the clamp to 3.0f
SpeedUpUnclamped(s) == FAdd(s, F0_1)

\* speed = std::min(speed + 0.1f, 3.0f)
SpeedUp(s) == FMin(FAdd(s, F0_1), F3_0)

\* speed = std::max(speed - 0.1f, 0.1f)
SpeedDown(s) == FMax(FSub(s, F0_1), F0_1)

\* the +/- block: each runs on every frame its key is down
HandleSpeed(st, down) ==
    LET s1 == IF "PLUS" \in down THEN SpeedUp(st.speed) ELSE st.speed
        s2 == IF "MINUS" \in down THEN SpeedDown(s1) ELSE s1
    IN  [st EXCEPT !.speed = s2]

\* CycleMode without the wrap to 0
CycleModeNoWrap(m) == m + 1

\* colorMode = (colorMode + 1) % 3
CycleMode(m) == (m + 1) % 3

\* the C block
HandleC(st, down) ==
    IF "C" \in down /\ ~keyCPressed
    THEN [st EXCEPT !.colorMode = CycleMode(st.colorMode)]
    ELSE st

\* speed = 1.0f; colorMode = 0; paused = false;
Reset(st) == [st EXCEPT !.speed = F1_0, !.colorMode = 0, !.paused = FALSE]

\* the R block, the last of the input handling
HandleR(st, down) ==
    IF "R" \in down /\ ~keyRPressed THEN Reset(st) ELSE st

\* HandleInput with the R block moved in front of the others
HandleInputResetFirst(st, down, now) ==
    HandleC(HandleSpeed(HandleSpace(HandleR(st, down), down, now), down), down)

\* lines 328-371 in order
HandleInput(st, down, now) ==
    HandleR(HandleC(HandleSpeed(HandleSpace(st, down, now), down), down), down)

\* RenderTime reading the clock whether paused or not
RenderTimeUnfrozen(st, now) == FInt(now)

\* float time = paused ? baseTime : (float)glfwGetTime();
RenderTime(st, now) == IF st.paused THEN st.baseTime ELSE FInt(now)

\* glUniform1f(timeLoc, time * speed)
TimeUniform(t, s) == FMul(t, s)

\* the transitions a poll of `down` makes the input handling take
Fired(down) ==
    {k \in down : \/ k \in {"PLUS", "MINUS"}
                  \/ k = "SPACE" /\ ~keySpacePressed
                  \/ k = "C" /\ ~keyCPressed
                  \/ k = "R" /\ ~keyRPressed}

\* one iteration of while (!glfwWindowShouldClose(window)): the poll finds
\* `down`, and the frame's reads of glfwGetTime() (lines 331 and 377) fall in
\* the clock unit `now`
Frame(down, now) ==
    \E st \in {HandleInput(State, down, now)} :
    \E f \in {Fired(down)} :
    \E tm \in {RenderTime(st, now)} :
        /\ paused' = st.paused
        /\ baseTime' = st.baseTime
        /\ speed' = st.speed
        /\ colorMode' = st.colorMode
        /\ keySpacePressed' = ("SPACE" \in down)
        /\ keyCPressed' = ("C" \in down)
        /\ keyRPressed' = ("R" \in down)
        /\ clock' = now
        /\ time' = tm
        /\ uTime' = TimeUniform(tm, st.speed)
        /\ uColorMode' = st.colorMode
        /\ keys' = down
        /\ fired' = f
        /\ pausedAt' = IF "SPACE" \in f /\ ~paused THEN now ELSE pausedAt
        /\ upRun' = IF "R" \in f THEN 0
                    ELSE IF "MINUS" \in down
                         THEN (IF st.speed = F1_0 THEN 0 ELSE 0 - 1)
                    ELSE IF "PLUS" \in down
                         THEN (IF upRun < 0 THEN upRun
                               ELSE IF upRun < MaxRun THEN upRun + 1 ELSE MaxRun)
                    ELSE upRun
        /\ speedFrames' = IF down \cap SpeedKeys = {} \/ speedFrames = MaxSpeedFrames
                          THEN speedFrames ELSE speedFrames + 1
        /\ modeHist' = IF "R" \in f THEN <<>>
                       ELSE IF "C" \in f
                            THEN (IF Len(modeHist) < 3
                                  THEN Append(modeHist, colorMode)
                                  ELSE Append(Tail(modeHist), colorMode))
                       ELSE modeHist
        /\ idleAdvance' = (down = {} /\ now > clock)

\* the state main() enters the loop with (lines 315-322)
InitLoop ==
    /\ paused = FALSE
    /\ baseTime = FZero
    /\ speed = F1_0
    /\ colorMode = 0
    /\ keySpacePressed = FALSE
    /\ keyCPressed = FALSE
    /\ keyRPressed = FALSE
    /\ clock = 0
    /\ time = FZero
    /\ uTime = FZero
    /\ uColorMode = 0
    /\ keys = {}
    /\ fired = {}
    /\ pausedAt = 0
    /\ upRun = 0
    /\ idleAdvance = FALSE
    /\ speedFrames = 0
    /\ modeHist = <<>>

----------------------------------------------------------------------------
(* the noise field generator: PerlinNoise3D and create3DNoiseTexture *)

\* bounds of the model
MaxSeed == 1

MaxSize == 2

MaxCalls == 2

\* p.resize(256)
TableSize == 256

\* std::default_random_engine is libstdc++'s minstd_rand0:
\* x' = 16807 * x mod 2147483647, with min() = 1 and max() = 2147483646
EngineMultiplier == 16807

EngineModulus == 2147483647

UrngRange == (EngineModulus - 1) - 1

VARIABLES
    pc,         \* "idle": outside create3DNoiseTexture; "fill": in its loop
    seed,       \* the seed PerlinNoise3D is constructed with
    size,       \* int size
    frequency,  \* float frequency
    engine,     \* the state of the shuffle's engine
    p,          \* std::vector<int> p, p[i] of the source at position i + 1
    idx,        \* int idx
    data,       \* std::vector<float> data, the cells written so far
    results     \* what each finished call produced: its table and its lattice

noiseVars == <<pc, seed, size, frequency, engine, p, idx, data, results>>

\* the engine's next state, by Schrage's method (no intermediate overflow)
Lcg(x) ==
    LET q == EngineModulus \div EngineMultiplier
        r == EngineModulus % EngineMultiplier
        t == EngineMultiplier * (x % q) - r * (x \div q)
    IN  IF t < 0 THEN t + EngineModulus ELSE t

\* EngineSeed taking up the state the previous construction left behind
EngineSeedStatic(sd) ==
    IF engine # 0 THEN engine
    ELSE IF sd % EngineModulus = 0 THEN 1 ELSE sd % EngineModulus

\* std::default_random_engine engine(seed)
EngineSeed(sd) == IF sd % EngineModulus = 0 THEN 1 ELSE sd % EngineModulus

RECURSIVE UniformInt(_, _)
\* uniform_int_distribution{0, n - 1}(engine): the downscaling with rejection
UniformInt(n, eng) ==
    LET e1      == Lcg(eng)
        ret     == e1 - 1
        scaling == UrngRange \div n
        past    == n * scaling
    IN  IF ret >= past THEN UniformInt(n, e1)
        ELSE [v |-> ret \div scaling, eng |-> e1]

\* Swap that overwrites t[i] and loses its old value
SwapOverwrite(t, i, j) == [t EXCEPT ![i + 1] = t[j + 1]]

\* std::iter_swap of t[i] and t[j]
Swap(t, i, j) == [t EXCEPT ![i + 1] = t[j + 1], ![j + 1] = t[i + 1]]

RECURSIVE ShufflePairs(_, _, _)
\* std::shuffle from position i on: one draw places two elements
ShufflePairs(t, i, eng) ==
    IF i >= Len(t) THEN [p |-> t, eng |-> eng]
    ELSE LET sr == i + 1
             d  == UniformInt(sr * (sr + 1), eng)
             t1 == Swap(t, i, d.v \div (sr + 1))
             t2 == Swap(t1, i + 1, d.v % (sr + 1))
         IN  ShufflePairs(t2, i + 2, d.eng)

\* std::shuffle(p.begin(), p.end(), engine), libstdc++: with an even number
\* of elements the first swap is drawn alone
Shuffle(t, eng) ==
    IF Len(t) % 2 = 0
    THEN LET d == UniformInt(2, eng)
         IN  ShufflePairs(Swap(t, 1, d.v), 2, d.eng)
    ELSE ShufflePairs(t, 1, eng)

\* std::iota(p.begin(), p.end(), 0)
Iota == [i \in 1..TableSize |-> i - 1]

\* p.insert(p.end(), p.begin(), p.end())
Doubled(t) == t \o t

\* PerlinNoise3D::PerlinNoise3D(seed): the table and the engine it leaves
Construct(sd) ==
    LET sh == Shuffle(Iota, EngineSeed(sd))
    IN  [p |-> Doubled(sh.p), eng |-> sh.eng]

\* t * t * t * (t * (t * 6 - 15) + 10)
Fade(t) ==
    FMul(FMul(FMul(t, t), t),
         FAdd(FMul(t, FSub(FMul(t, FInt(6)), FInt(15))), FInt(10)))

\* a + t * (b - a)
Lerp(a, b, t) == FAdd(a, FMul(t, FSub(b, a)))

\* grad(hash, x, y, z)
Grad(hash, x, y, z) ==
    LET h == hash % 16
        u == IF h < 8 THEN x ELSE y
        v == IF h < 4 THEN y ELSE IF h = 12 \/ h = 14 THEN x ELSE z
    IN  FAdd(IF h % 2 = 1 THEN FNeg(u) ELSE u,
             IF (h \div 2) % 2 = 1 THEN FNeg(v) ELSE v)

\* CellIndex without the mask
CellIndexUnmasked(c) == FFloor(c)

\* (int)floor(c) & 255
CellIndex(c) == FFloor(c) % 256

\* PerlinNoise3D::noise(x, y, z) on the table t
Noise(t, x0, y0, z0) ==
    LET X  == CellIndex(x0)
        Y  == CellIndex(y0)
        Z  == CellIndex(z0)
        x  == FSub(x0, FInt(FFloor(x0)))
        y  == FSub(y0, FInt(FFloor(y0)))
        z  == FSub(z0, FInt(FFloor(z0)))
        x1 == FSub(x, F1_0)
        y1 == FSub(y, F1_0)
        z1 == FSub(z, F1_0)
        u  == Fade(x)
        v  == Fade(y)
        w  == Fade(z)
        A  == t[X + 1] + Y
        AA == t[A + 1] + Z
        AB == t[A + 2] + Z
        B  == t[X + 2] + Y
        BA == t[B + 1] + Z
        BB == t[B + 2] + Z
    IN  Lerp(Lerp(Lerp(Grad(t[AA + 1], x, y, z), Grad(t[BA + 1], x1, y, z), u),
                  Lerp(Grad(t[AB + 1], x, y1, z), Grad(t[BB + 1], x1, y1, z), u),
                  v),
             Lerp(Lerp(Grad(t[AA + 2], x, y, z1), Grad(t[BA + 2], x1, y, z1), u),
                  Lerp(Grad(t[AB + 2], x, y1, z1), Grad(t[BB + 2], x1, y1, z1), u),
                  v),
             w)

\* 0.5f + 0.5f * perlin.noise(x * frequency, y * frequency, z * frequency)
CellValue(t, x, y, z, f) ==
    FAdd(F0_5, FMul(F0_5, Noise(t, FMul(FInt(x), f), FMul(FInt(y), f),
                                   FMul(FInt(z), f))))

\* the seeds, sizes and frequencies a call is made with
Seeds == (0..MaxSeed) \cup {237, 441}

Sizes == 1..MaxSize

Frequencies == {F0_04, F0_1, F149_5}

\* create3DNoiseTexture is entered: data is allocated and perlin constructed
Call ==
    /\ pc = "idle"
    /\ Len(results) < MaxCalls
    /\ \E c \in {Construct(seed)} :
          /\ p' = c.p
          /\ engine' = c.eng
    /\ idx' = 0
    /\ data' = <<>>
    /\ pc' = "fill"
    /\ UNCHANGED <<seed, size, frequency, results>>

\* one iteration of the innermost loop: data[idx++] = ...
Cell ==
    /\ pc = "fill"
    /\ idx < size * size * size
    /\ LET x == idx % size
           y == (idx \div size) % size
           z == idx \div (size * size)
       IN  data' = Append(data, CellValue(p, x, y, z, frequency))
    /\ idx' = idx + 1
    /\ UNCHANGED <<pc, seed, size, frequency, engine, p, results>>

\* the loops are done: the lattice is uploaded and the call returns
Return ==
    /\ pc = "fill"
    /\ idx = size * size * size
    /\ results' = Append(results, [p |-> p, lattice |-> data])
    /\ pc' = "idle"
    /\ UNCHANGED <<seed, size, frequency, engine, p, idx, data>>

IdleNoise ==
    /\ pc = "idle"
    /\ engine = 0
    /\ p = <<>>
    /\ idx = 0
    /\ data = <<>>
    /\ results = <<>>

InitNoise ==
    /\ seed \in Seeds
    /\ size \in Sizes
    /\ frequency \in Frequencies
    /\ IdleNoise

----------------------------------------------------------------------------
(* the shader build: compileShader and createShaderProgram of Project.cpp, *)
(* compileShader and createShader of part1.cpp                            *)

\* the driver's info logs are told apart by a number in 1..MaxInfoLog
MaxInfoLog == 2

InfoLogs == 1..MaxInfoLog

Units == {"Project", "part1"}

VARIABLES
    unit,        \* the translation unit whose build runs
    done,        \* the number of build steps executed
    nextName,    \* the next object name the GL hands out
    vs,          \* the vertex shader's name, 0 before it is created
    fs,          \* the fragment shader's name, 0 before it is created
    prog,        \* the program's name, 0 before it is created
    vsStatus,    \* GL_COMPILE_STATUS of vs: "none", "ok" or "fail"
    fsStatus,    \* GL_COMPILE_STATUS of fs
    linkStatus,  \* GL_LINK_STATUS of prog
    deleted,     \* glDeleteShader was called on vs and fs
    diag,        \* what was written to std::cerr and std::cout, in order
    inUse        \* the returned name was handed to glUseProgram

shaderVars == <<unit, done, nextName, vs, fs, prog, vsStatus, fsStatus,
                linkStatus, deleted, diag, inUse>>

\* the order of the calls: createShaderProgram compiles and then creates the
\* program, createShader creates the program first
Steps(u) ==
    IF u = "Project"
    THEN <<"vs", "fs", "create", "link", "delete", "return", "use">>
    ELSE <<"create", "vs", "fs", "link", "delete", "return", "use">>

NextStep == IF done < Len(Steps(unit)) THEN Steps(unit)[done + 1] ELSE "end"

\* what compileShader writes when GL_COMPILE_STATUS is false
CompileDiagnostic(u, name, info) ==
    IF u = "Project"
    THEN [stream |-> "cerr", text |-> "Shader error:", object |-> name,
          info |-> info]
    ELSE [stream |-> "cout", text |-> "Shader compile error:", object |-> name,
          info |-> info]

\* the output of one compileShader call whose compilation succeeded (ok) or
\* failed with the info log info
CompileShader(ok, info) ==
    IF ok THEN diag ELSE Append(diag, CompileDiagnostic(unit, nextName, info))

\* compileShader(GL_VERTEX_SHADER, ...)
CompileVertex ==
    /\ NextStep = "vs"
    /\ \E ok \in BOOLEAN : \E info \in InfoLogs :
          /\ vsStatus' = IF ok THEN "ok" ELSE "fail"
          /\ diag' = CompileShader(ok, info)
    /\ vs' = nextName
    /\ nextName' = nextName + 1
    /\ done' = done + 1
    /\ UNCHANGED <<unit, fs, prog, fsStatus, linkStatus, deleted, inUse>>

\* compileShader(GL_FRAGMENT_SHADER, ...)
CompileFragment ==
    /\ NextStep = "fs"
    /\ \E ok \in BOOLEAN : \E info \in InfoLogs :
          /\ fsStatus' = IF ok THEN "ok" ELSE "fail"
          /\ diag' = CompileShader(ok, info)
    /\ fs' = nextName
    /\ nextName' = nextName + 1
    /\ done' = done + 1
    /\ UNCHANGED <<unit, vs, prog, vsStatus, linkStatus, deleted, inUse>>

\* glCreateProgram()
CreateProgram ==
    /\ NextStep = "create"
    /\ prog' = nextName
    /\ nextName' = nextName + 1
    /\ done' = done + 1
    /\ UNCHANGED <<unit, vs, fs, vsStatus, fsStatus, linkStatus, deleted, diag,
                   inUse>>

\* glAttachShader twice and glLinkProgram: linking fails when an attached
\* shader did not compile, and may fail when both did; the status is not
\* queried and nothing is written
LinkProgram ==
    /\ NextStep = "link"
    /\ \E ok \in BOOLEAN :
          /\ (vsStatus = "fail" \/ fsStatus = "fail") => ~ok
          /\ linkStatus' = IF ok THEN "ok" ELSE "fail"
    /\ done' = done + 1
    /\ UNCHANGED <<unit, nextName, vs, fs, prog, vsStatus, fsStatus, deleted,
                   diag, inUse>>

\* glDeleteShader(vs); glDeleteShader(fs)
DeleteShaders ==
    /\ NextStep = "delete"
    /\ deleted' = TRUE
    /\ done' = done + 1
    /\ UNCHANGED <<unit, nextName, vs, fs, prog, vsStatus, fsStatus,
                   linkStatus, diag, inUse>>

\* return prog
ReturnProgram ==
    /\ NextStep = "return"
    /\ done' = done + 1
    /\ UNCHANGED <<unit, nextName, vs, fs, prog, vsStatus, fsStatus,
                   linkStatus, deleted, diag, inUse>>

\* glUseProgram(shader) with the returned name
UseProgram ==
    /\ NextStep = "use"
    /\ inUse' = TRUE
    /\ done' = done + 1
    /\ UNCHANGED <<unit, nextName, vs, fs, prog, vsStatus, fsStatus,
                   linkStatus, deleted, diag>>

\* no build has started
IdleShader ==
    /\ done = 0
    /\ nextName = 1
    /\ vs = 0
    /\ fs = 0
    /\ prog = 0
    /\ vsStatus = "none"
    /\ fsStatus = "none"
    /\ linkStatus = "none"
    /\ deleted = FALSE
    /\ diag = <<>>
    /\ inUse = FALSE

InitShader ==
    /\ unit \in Units
    /\ IdleShader

----------------------------------------------------------------------------
(* one evaluation of PerlinNoise3D::noise at an arbitrary point *)

\* the points have their cells within MaxCell of 0 and of the table's end
MaxCell == 1

CoordCells ==
    ((0 - MaxCell)..MaxCell) \cup ((TableSize - 1 - MaxCell)..TableSize)
        \cup {0 - TableSize - 1, 0 - TableSize}

\* whole coordinates, and some halfway into their cell
Coords ==
    {FInt(n) : n \in CoordCells}
        \cup {FAdd(FInt(n), F0_5) : n \in {0 - TableSize - 1, 0 - 1, 0, TableSize - 1}}

\* the tables the constructor makes, and the table it has before the shuffle
Tables == {Construct(sd).p : sd \in Seeds} \cup {Doubled(Iota)}

\* what a read of p outside its storage may yield
JunkReads == {0 - 1, 0, TableSize}

VARIABLES
    table,      \* the p of the PerlinNoise3D noise() is called on
    point,      \* the arguments <<x, y, z>>
    evaluated,  \* noise() has run
    reads,      \* the source indices i of every p[i] the call read
    value       \* the float the call returned

lookupVars == <<table, point, evaluated, reads, value>>

\* p[i] of the source
Read(t, i, junk) == IF i + 1 \in DOMAIN t THEN t[i + 1] ELSE junk

\* the indices noise(x0, y0, z0) reads p at
NoiseReads(t, x0, y0, z0, junk) ==
    LET X  == CellIndex(x0)
        Y  == CellIndex(y0)
        Z  == CellIndex(z0)
        A  == Read(t, X, junk) + Y
        AA == Read(t, A, junk) + Z
        AB == Read(t, A + 1, junk) + Z
        B  == Read(t, X + 1, junk) + Y
        BA == Read(t, B, junk) + Z
        BB == Read(t, B + 1, junk) + Z
    IN  {X, X + 1, A, A + 1, B, B + 1,
         AA, BA, AB, BB, AA + 1, BA + 1, AB + 1, BB + 1}

\* perlin.noise(x, y, z): a read outside p leaves the result to the build
Evaluate ==
    /\ ~evaluated
    /\ \E junk \in JunkReads :
       \E r \in {NoiseReads(table, point[1], point[2], point[3], junk)} :
          /\ reads' = r
          /\ IF \A i \in r : i + 1 \in DOMAIN table
             THEN value' = Noise(table, point[1], point[2], point[3])
             ELSE value' \in {FZero, F1_0, FNeg(F1_0)}
    /\ evaluated' = TRUE
    /\ UNCHANGED <<table, point>>

\* no evaluation is under way
IdleLookup ==
    /\ table = <<>>
    /\ point = <<>>
    /\ evaluated = FALSE
    /\ reads = {}
    /\ value = FZero

InitLookup ==
    /\ table \in Tables
    /\ point \in Coords \X Coords \X Coords
    /\ evaluated = FALSE
    /\ reads = {}
    /\ value = FZero

\* the loop under every key: at most MaxKeysDown keys are down at a poll, and at
\* most MaxSpeedFrames frames find a speed key down
NextLoop ==
    \E down \in KeySets : \E now \in clock..MaxClock :
        /\ down \cap SpeedKeys # {} => speedFrames < MaxSpeedFrames
        /\ Frame(down, now)
        /\ UNCHANGED <<noiseVars, shaderVars, lookupVars>>

\* the loop under the keys that change the speed, held for any number of frames
NextSpeed ==
    \E down \in SUBSET {"PLUS", "MINUS", "R"} : \E now \in clock..MaxClock :
        Frame(down, now) /\ UNCHANGED <<noiseVars, shaderVars, lookupVars>>

\* calls of the noise generator with one seed, size and frequency
NextNoise ==
    \/ Call /\ UNCHANGED <<loopVars, shaderVars, lookupVars>>
    \/ Cell /\ UNCHANGED <<loopVars, shaderVars, lookupVars>>
    \/ Return /\ UNCHANGED <<loopVars, shaderVars, lookupVars>>

\* one build of the shader program, step by step
NextShader ==
    \/ CompileVertex /\ UNCHANGED <<loopVars, noiseVars, lookupVars>>
    \/ CompileFragment /\ UNCHANGED <<loopVars, noiseVars, lookupVars>>
    \/ CreateProgram /\ UNCHANGED <<loopVars, noiseVars, lookupVars>>
    \/ LinkProgram /\ UNCHANGED <<loopVars, noiseVars, lookupVars>>
    \/ DeleteShaders /\ UNCHANGED <<loopVars, noiseVars, lookupVars>>
    \/ ReturnProgram /\ UNCHANGED <<loopVars, noiseVars, lookupVars>>
    \/ UseProgram /\ UNCHANGED <<loopVars, noiseVars, lookupVars>>

\* noise() called once on a table and a point
NextLookup == Evaluate /\ UNCHANGED <<loopVars, noiseVars, shaderVars>>

vars == <<loopVars, noiseVars, shaderVars, lookupVars>>

\* main() in its loop, with the texture main() made (seed 237) left aside
InitLoopOnly ==
    /\ InitLoop
    /\ seed = 237
    /\ size = 1
    /\ frequency = F0_04
    /\ IdleNoise
    /\ unit = "Project"
    /\ IdleShader
    /\ IdleLookup

SpecLoop == InitLoopOnly /\ [][NextLoop]_vars

SpecSpeed == InitLoopOnly /\ [][NextSpeed]_vars

\* the texture is built before the loop starts, from any of the modelled arguments
InitTexture ==
    /\ InitLoop
    /\ InitNoise
    /\ unit = "Project"
    /\ IdleShader
    /\ IdleLookup

SpecNoise == InitTexture /\ [][NextNoise]_vars

\* the shader program of either translation unit is built before its loop
InitBuild ==
    /\ InitLoop
    /\ seed = 237
    /\ size = 1
    /\ frequency = F0_04
    /\ IdleNoise
    /\ InitShader
    /\ IdleLookup

SpecShader == InitBuild /\ [][NextShader]_vars

\* a PerlinNoise3D and a point, before noise() is called on them
InitPoint ==
    /\ InitLoop
    /\ seed = 237
    /\ size = 1
    /\ frequency = F0_04
    /\ IdleNoise
    /\ unit = "Project"
    /\ IdleShader
    /\ InitLookup

SpecLookup == InitPoint /\ [][NextLookup]_vars

----------------------------------------------------------------------------
(* claims about the render loop *)

\* C1: on the frame whose SPACE press resumes playback, the animation time
\* handed to the shader continues from the reference frozen when the pause
\* began: it does not jump by the wall-clock time that passed while paused.
C1_ResumeContinues ==
    [][(paused /\ ~paused' /\ "SPACE" \in fired') => time' = baseTime]_vars

C3_PausedSpeedNoEffect == [][(paused /\ paused') => uTime' = uTime]_vars

\* C4: each of the five transitions fires on a frame exactly when its key is
\* down on that frame and was not down on the frame before: once per press,
\* however many frames the key is held.
C4_EdgeTriggered ==
    [][\A k \in Keys : k \in fired' <=> (k \in keys' /\ k \notin keys)]_vars

\* C5: the speed is always within [0.1, 3.0], and after 50 or more speed-up
\* steps in a row from 1.0 it is exactly 3.0.
C5_SpeedClamp ==
    /\ FLeq(F0_1, speed)
    /\ FLeq(speed, F3_0)
    /\ upRun >= 50 => speed = F3_0

C5_Witness == upRun >= 50 /\ speed = F3_0 /\ "PLUS" \in fired

\* C6: on a frame where R is newly pressed, whatever the state before and
\* whatever other keys are down, the frame is rendered with speed 1.0,
\* colorMode 0 and not paused.
C6_Reset ==
    "R" \in fired =>
        /\ speed = F1_0
        /\ colorMode = 0
        /\ ~paused
        /\ uColorMode = 0
        /\ uTime = FInt(clock)

C6_Witness ==
    /\ "R" \in fired
    /\ "C" \in fired
    /\ Len(modeHist) = 0
    /\ colorMode = 0
    /\ clock > 0

\* C7: colorMode is always 0, 1 or 2; a cycle maps 0 to 1, 1 to 2 and 2 to 0;
\* and three cycles with no reset between them return to the mode they
\* started from.
C7_ColourCycle ==
    /\ colorMode \in {0, 1, 2}
    /\ Len(modeHist) >= 1 =>
           LET prev == modeHist[Len(modeHist)]
           IN  colorMode = CASE prev = 0 -> 1 [] prev = 1 -> 2 [] prev = 2 -> 0
    /\ Len(modeHist) = 3 => colorMode = modeHist[1]

C7_Witness == Len(modeHist) = 3 /\ modeHist[1] = 1 /\ colorMode = 1
----------------------------------------------------------------------------
(* claims about the noise field generator *)

\* a table of 2 * TableSize entries whose first half holds each of
\* 0..TableSize-1 once and whose second half repeats the first
TableValid(t) ==
    /\ Len(t) = 2 * TableSize
    /\ {t[i] : i \in 1..TableSize} = 0..(TableSize - 1)
    /\ \A i \in 1..TableSize : t[TableSize + i] = t[i]

\* C8: for every seed the constructed table has 512 entries, its first 256 are
\* a permutation of 0..255 and entry 256+i equals entry i; it is still so
\* after every noise() evaluation of the call and when the call returns.
C8_PermutationValid ==
    /\ pc = "fill" => TableValid(p)
    /\ \A i \in 1..Len(results) : TableValid(results[i].p)

C8_Witness ==
    /\ pc = "fill"
    /\ idx = 8
    /\ seed = 237
    /\ SubSeq(p, 1, 4) = <<4, 152, 33, 255>>
    /\ SubSeq(p, TableSize + 1, TableSize + 4) = <<4, 152, 33, 255>>

C10_RangeBound ==
    \A i \in 1..Len(data) : FLeq(FZero, data[i]) /\ FLeq(data[i], F1_0)
\* C12: a frame that finds no control key down leaves paused, baseTime, speed
\* and colorMode as they were, and after any frame these four are what the
\* input handling made of them: rendering, whatever clock it reads, changes
\* none of them.
C12_SingleWriter ==
    [][/\ keys' = {} => UNCHANGED <<paused, baseTime, speed, colorMode>>
       /\ [paused |-> paused', baseTime |-> baseTime', speed |-> speed',
           colorMode |-> colorMode'] = HandleInput(State, keys', clock')]_vars

\* a frame without keys read a later clock while the animation was paused at
\* an earlier one, with speed and colour mode off their defaults
C12_Witness ==
    /\ idleAdvance
    /\ paused
    /\ baseTime = FInt(pausedAt)
    /\ pausedAt < clock
    /\ speed # F1_0
    /\ colorMode # 0

----------------------------------------------------------------------------
(* claims about the shader build *)

\* C11: once the program name has been returned (and when it is in use), if
\* compiling the vertex shader, compiling the fragment shader or linking the
\* program failed, then a diagnostic has been written.
C11_FailuresReported ==
    NextStep \in {"use", "end"} =>
        ((vsStatus = "fail" \/ fsStatus = "fail" \/ linkStatus = "fail")
            => Len(diag) > 0)

----------------------------------------------------------------------------
(* claims about the table lookups *)

\* C13: for every point, negative coordinates included, and every valid
\* table, each index at which noise() reads the table lies in 0..511.
C13_LookupsInBounds ==
    (evaluated /\ TableValid(table)) =>
        \A i \in reads : i \in 0..(2 * TableSize - 1)

\* an evaluation on the default table at a point with a negative coordinate
\* that read the table's first and last entries
C13_Witness ==
    /\ evaluated
    /\ table = Construct(237).p
    /\ \E k \in 1..3 : point[k].s = 1
    /\ 0 \in reads
    /\ (2 * TableSize - 1) \in reads

====
